---- MODULE Spec2Model ----
(***************************************************************************)
(* Model of the pressure acquisition loop (mbr_write.py) and of the        *)
(* viewer's pure functions (mbr_plot_h5.py).                               *)
(*                                                                         *)
(* Time is wall-clock time in integer milliseconds.  A Bucket Label        *)
(* 'YYMMDDHHmm' is the record [date, hhmm]; the slice [:-4] of the code    *)
(* keeps the field date.  A day and a minute are scaled down to a few      *)
(* ticks so that boundary crossings happen within a short run.             *)
(***************************************************************************)
EXTENDS Integers, Sequences, FiniteSets, TLC

\* ---------------------------------------------------------------- bounds
TicksPerMinute == 2      \* intervals per minute (1200 in reality)
MinutesPerDay  == 3      \* minutes per day (1440 in reality)
Capacity       == 2      \* 600*20 in the code, scaled
MaxSamples     == 5      \* samples acquired in one run
MaxFailures    == 1      \* store or source failures injected in one run
MaxLen         == 3      \* longest series of the round-trip specification
MaxSeries      == 34     \* longest series of the decimation specification
MaxQ           == 4      \* largest decimation factor
MaxTicks       == 6      \* iterations of the tick-arithmetic specification
MaxStartMs     == 300    \* latest start, in ms, of that specification

\* ------------------------------------------------------- program constants
interval_ms == 50
WrapThreshold == 8192    \* 2**13
WrapRange == 65536       \* 2**16
PadLen == 27             \* filtfilt pad of the order-8 filter of decimate()
\* binary64 arithmetic on seconds since the epoch, which lie between 2^30
\* and 2^31: one ulp is 2^-22 s.  The unit is a fifth of an ulp, so that
\* 0.05 s = 209715.2 ulp is the whole number 2^20.
UlpFifths == 5
IntervalFifths == 1048576

MinuteMs == TicksPerMinute * interval_ms
DayMs    == MinutesPerDay * MinuteMs

pref == "data/mbZai_"
ext  == ".h5"
DefaultDataset == "pressure_series"

\* durations, in ms, the environment may take
ReadDelays  == {0, 125}
StoreDelays == {25}
StartTimes  == {0, 30, DayMs - Capacity * interval_ms - 60,
                DayMs - 60, DayMs - 10}
Codes       == {7, WrapThreshold}
RTStamps    == {0, 50}
RTCodes     == {0, 7, WrapThreshold}
DecStarts   == {0, 1000}

VARIABLES pc, now, next_tick, tmpdate, filename, time, p, store, proc,
          nsamples, nfail, created, nrun, nflush, nrot, failed,
          rows0, in_ts, in_p, out_ts, out_p, raw, conv, q,
          tick0, slept, acquired, srcfailed, view

vars == <<pc, now, next_tick, tmpdate, filename, time, p, store, proc,
          nsamples, nfail, created, nrun, nflush, nrot, failed,
          rows0, in_ts, in_p, out_ts, out_p, raw, conv, q,
          tick0, slept, acquired, srcfailed, view>>

fnVars == <<in_ts, in_p, out_ts, out_p, raw, conv, q, view>>

\* history of the scheduler: the first tick target, whether the last
\* iteration slept, the samples acquired so far, a failed Sample Source call
histVars == <<tick0, slept, acquired, srcfailed>>

\* ------------------------------------------------------------- helpers
\* strftime('%y%m%d%H%M') of an instant
Label(t) == [date |-> t \div DayMs, hhmm |-> (t % DayMs) \div MinuteMs]

\* label[:-4]
DatePart(l) == l.date

FileName(l) == <<pref, l, ext>>

\* a plausible slip: the threshold itself is not wrapped
Unwrap_gt(r) == IF r > WrapThreshold THEN r - WrapRange ELSE r

\* p - 2**16*(p >= 2**13)
Unwrap(r) == IF r >= WrapThreshold THEN r - WrapRange ELSE r

\* p*100*2.5/2**13, as the numerator of a fraction over 2**13
Scale(s) == s * 250

Convert(r) == Scale(Unwrap(r))

\* np.column_stack((time, p)) after the conversion of p
ColumnStack(ts, ps) == [i \in 1..Len(ts) |-> <<ts[i], Convert(ps[i])>>]

\* the viewer before it has run: no exit code, nothing printed
NoView == [exitcode |-> -1, diag |-> "none", unreadable |-> FALSE,
           decimated |-> FALSE, store0 |-> <<>>]

NoProc == [target |-> "none", alive |-> FALSE, exitcode |-> 0, args |-> <<>>]

\* h5py.File(name, 'w') + create_dataset: an existing file is truncated
create_pressure_dataset(st, f) ==
    [x \in (DOMAIN st) \cup {f} |->
        IF x = f THEN (DefaultDataset :> <<>>) ELSE st[x]]

\* h5py.File(name, 'a'): a missing file is created empty
OpenAppend(st, f) ==
    IF f \in DOMAIN st THEN st
    ELSE [x \in (DOMAIN st) \cup {f} |-> IF x = f THEN <<>> ELSE st[x]]

\* a plausible slip: the rows are written at the head (current_size ignored)
add_pressure_array_head(st, f, ts, ps) ==
    LET data == ColumnStack(ts, ps)
        st1  == OpenAppend(st, f)
    IN  IF Len(data) = 0 THEN st
        ELSE IF DefaultDataset \notin DOMAIN st1[f] THEN st1
        ELSE [st1 EXCEPT ![f] =
                 (DefaultDataset :> (data \o st1[f][DefaultDataset]))]

\* the store after add_pressure_array, when no I/O error occurs
add_pressure_array(st, f, ts, ps) ==
    LET data == ColumnStack(ts, ps)
        st1  == OpenAppend(st, f)
    IN  IF Len(data) = 0 THEN st
        ELSE IF DefaultDataset \notin DOMAIN st1[f] THEN st1
        ELSE [st1 EXCEPT ![f] =
                 (DefaultDataset :> (st1[f][DefaultDataset] \o data))]

\* add_pressure_array raises (KeyError) when the dataset is missing
add_raises(st, f, ts, ps) ==
    /\ Len(ts) > 0
    /\ DefaultDataset \notin DOMAIN (OpenAppend(st, f)[f])

\* a plausible slip: the two columns are taken in the other order
load_pressure_data_swapped(st, f) ==
    LET data == st[f][DefaultDataset]
    IN  << [i \in 1..Len(data) |-> data[i][2]],
           [i \in 1..Len(data) |-> data[i][1]] >>

\* load_pressure_data: the two columns of the dataset
load_pressure_data(st, f) ==
    LET data == st[f][DefaultDataset]
    IN  << [i \in 1..Len(data) |-> data[i][1]],
           [i \in 1..Len(data) |-> data[i][2]] >>

\* ------------------------------------------------------------- Init
FnIdle ==
    /\ in_ts = <<>> /\ in_p = <<>> /\ out_ts = <<>> /\ out_p = <<>>
    /\ raw = 0 /\ conv = 0 /\ q = 1
    /\ view = NoView

HistIdle ==
    /\ tick0 = 0 /\ slept = FALSE /\ acquired = <<>> /\ srcfailed = FALSE

Init ==
    /\ pc = "start"
    /\ now \in StartTimes
    /\ next_tick = 0
    /\ tmpdate = Label(0)
    /\ filename = FileName(Label(0))
    /\ time = <<>> /\ p = <<>>
    \* the store of an earlier run: empty, or the file of the current minute
    /\ \E old \in {<<>>, << <<now, Convert(7)>> >>} :
          /\ rows0 = old
          /\ store = IF old = <<>> THEN <<>>
                     ELSE (FileName(Label(now)) :> (DefaultDataset :> old))
    /\ proc = NoProc
    /\ nsamples = 0 /\ nfail = 0 /\ created = <<>>
    /\ nrun = 0 /\ nflush = 0 /\ nrot = 0 /\ failed = FALSE
    /\ FnIdle /\ HistIdle

\* ------------------------------------------------------------- actions
\* lines 84-89: the first Segment, created by a direct call
InitCreate ==
    /\ pc = "start"
    /\ tmpdate' = Label(now)
    /\ filename' = FileName(Label(now))
    /\ created' = Append(created, FileName(Label(now)))
    /\ \E d \in StoreDelays : now' = now + d
    /\ \/ /\ store' = create_pressure_dataset(store, FileName(Label(now)))
          /\ pc' = "sync"
          /\ UNCHANGED <<nfail, failed>>
       \/ /\ nfail < MaxFailures
          /\ nfail' = nfail + 1
          /\ failed' = TRUE
          /\ store' = store
          /\ pc' = "crashed"
    /\ UNCHANGED <<next_tick, time, p, proc, nsamples, nrun, nflush, nrot, rows0>>
    /\ UNCHANGED fnVars /\ UNCHANGED histVars

\* lines 91-96
Sync ==
    /\ pc = "sync"
    /\ next_tick' = ((now \div interval_ms) + 1) * interval_ms
    /\ pc' = "sleep"
    /\ UNCHANGED <<now, tmpdate, filename, time, p, store, proc, nsamples,
                   nfail, created, nrun, nflush, nrot, failed, rows0>>
    /\ UNCHANGED fnVars
    /\ tick0' = ((now \div interval_ms) + 1) * interval_ms
    /\ UNCHANGED <<slept, acquired, srcfailed>>

\* a plausible slip: a late iteration waits one more interval
Sleep_always ==
    /\ pc = "sleep"
    /\ nsamples < MaxSamples
    /\ now' = IF next_tick - now > 0 THEN next_tick ELSE now + interval_ms
    /\ pc' = "read"
    /\ UNCHANGED <<next_tick, tmpdate, filename, time, p, store, proc, nsamples,
                   nfail, created, nrun, nflush, nrot, failed, rows0>>
    /\ UNCHANGED fnVars
    /\ slept' = TRUE
    /\ UNCHANGED <<tick0, acquired, srcfailed>>

\* lines 100-102
Sleep ==
    /\ pc = "sleep"
    /\ nsamples < MaxSamples
    /\ now' = IF next_tick - now > 0 THEN next_tick ELSE now
    /\ pc' = "read"
    /\ UNCHANGED <<next_tick, tmpdate, filename, time, p, store, proc, nsamples,
                   nfail, created, nrun, nflush, nrot, failed, rows0>>
    /\ UNCHANGED fnVars
    /\ slept' = (next_tick - now > 0)
    /\ UNCHANGED <<tick0, acquired, srcfailed>>

\* lines 103-105 with read_lcard (67-70): the stamp is taken after the read
Read ==
    /\ pc = "read"
    /\ \E d \in ReadDelays, x \in Codes :
          /\ now' = now + d
          /\ time' = Append(time, now + d)
          /\ p' = Append(p, x)
          /\ acquired' = Append(acquired,
                [t |-> now + d, raw |-> x, slept |-> slept,
                 target |-> next_tick, at |-> now])
    /\ nsamples' = nsamples + 1
    /\ nrun' = nrun + 1
    /\ pc' = "check"
    /\ UNCHANGED <<next_tick, tmpdate, filename, store, proc,
                   nfail, created, nflush, nrot, failed, rows0>>
    /\ UNCHANGED fnVars
    /\ UNCHANGED <<tick0, slept, srcfailed>>

\* a plausible slip: a failed read is skipped and the next tick is tried
ReadFail_retry ==
    /\ pc = "read"
    /\ nfail < MaxFailures
    /\ nfail' = nfail + 1
    /\ pc' = "sleep"
    /\ UNCHANGED <<now, next_tick, tmpdate, filename, time, p, store, proc,
                   nsamples, created, nrun, nflush, nrot, failed, rows0>>
    /\ UNCHANGED fnVars
    /\ srcfailed' = TRUE
    /\ UNCHANGED <<tick0, slept, acquired>>

\* read_lcard returns None when IoAsync fails: the unpacking raises
ReadFail ==
    /\ pc = "read"
    /\ nfail < MaxFailures
    /\ nfail' = nfail + 1
    /\ pc' = "crashed"
    /\ UNCHANGED <<now, next_tick, tmpdate, filename, time, p, store, proc,
                   nsamples, created, nrun, nflush, nrot, failed, rows0>>
    /\ UNCHANGED fnVars
    /\ srcfailed' = TRUE
    /\ UNCHANGED <<tick0, slept, acquired>>

\* a plausible slip: the whole minute label is compared
Crossing_minute(new, cur) == new # cur

\* line 110: the comparison that decides a rotation
Crossing(new, cur) == DatePart(new) # DatePart(cur)

\* a plausible slip: the flush waits for one sample more
CapacityReached_gt(n) == n > Capacity

\* line 123: time.size == 600*20
CapacityReached(n) == n = Capacity

\* lines 107-113: rotation branch, the append worker is started
CheckRotate ==
    /\ pc = "check"
    /\ Crossing(Label(next_tick + interval_ms), tmpdate)
    /\ next_tick' = next_tick + interval_ms
    /\ tmpdate' = Label(next_tick + interval_ms)
    /\ proc' = [target |-> "add_pressure_array", alive |-> TRUE, exitcode |-> 0,
                args |-> <<filename, time, p>>]
    /\ nrot' = nrot + 1
    /\ pc' = "rot_append_join"
    /\ UNCHANGED <<now, filename, time, p, store, nsamples, nfail, created,
                   nrun, nflush, failed, rows0>>
    /\ UNCHANGED fnVars /\ UNCHANGED histVars

\* a plausible slip: the capacity is tested first, whatever the labels say
CheckCapacity_first ==
    /\ pc = "check"
    /\ CapacityReached(Len(time))
    /\ next_tick' = next_tick + interval_ms
    /\ proc' = [target |-> "add_pressure_array", alive |-> TRUE, exitcode |-> 0,
                args |-> <<filename, time, p>>]
    /\ nflush' = nflush + 1
    /\ pc' = "cap_join"
    /\ UNCHANGED <<now, tmpdate, filename, time, p, store, nsamples, nfail,
                   created, nrun, nrot, failed, rows0>>
    /\ UNCHANGED fnVars /\ UNCHANGED histVars

\* a plausible slip: at capacity the loop goes on without starting the worker
CheckCapacity_nostart ==
    /\ pc = "check"
    /\ ~Crossing(Label(next_tick + interval_ms), tmpdate)
    /\ CapacityReached(Len(time))
    /\ next_tick' = next_tick + interval_ms
    /\ pc' = "sleep"
    /\ UNCHANGED <<now, tmpdate, filename, time, p, store, proc, nsamples,
                   nfail, created, nrun, nflush, nrot, failed, rows0>>
    /\ UNCHANGED fnVars /\ UNCHANGED histVars

\* lines 107-110, 123-125: capacity branch, the append worker is started
CheckCapacity ==
    /\ pc = "check"
    /\ ~Crossing(Label(next_tick + interval_ms), tmpdate)
    /\ CapacityReached(Len(time))
    /\ next_tick' = next_tick + interval_ms
    /\ proc' = [target |-> "add_pressure_array", alive |-> TRUE, exitcode |-> 0,
                args |-> <<filename, time, p>>]
    /\ nflush' = nflush + 1
    /\ pc' = "cap_join"
    /\ UNCHANGED <<now, tmpdate, filename, time, p, store, nsamples, nfail,
                   created, nrun, nrot, failed, rows0>>
    /\ UNCHANGED fnVars /\ UNCHANGED histVars

\* lines 107-110, 123: neither condition fires
CheckNone ==
    /\ pc = "check"
    /\ ~Crossing(Label(next_tick + interval_ms), tmpdate)
    /\ ~CapacityReached(Len(time))
    /\ next_tick' = next_tick + interval_ms
    /\ pc' = "sleep"
    /\ UNCHANGED <<now, tmpdate, filename, time, p, store, proc, nsamples,
                   nfail, created, nrun, nflush, nrot, failed, rows0>>
    /\ UNCHANGED fnVars /\ UNCHANGED histVars

\* the child process running add_pressure_array (lines 45-64)
WorkerAppend ==
    /\ proc.alive
    /\ proc.target = "add_pressure_array"
    /\ \E d \in StoreDelays : now' = now + d
    /\ LET f == proc.args[1]
           ts == proc.args[2]
           ps == proc.args[3]
       IN \/ /\ store' = add_pressure_array(store, f, ts, ps)
             /\ proc' = [proc EXCEPT !.alive = FALSE,
                            !.exitcode = IF add_raises(store, f, ts, ps)
                                         THEN 1 ELSE 0]
             /\ failed' = (failed \/ add_raises(store, f, ts, ps))
             /\ nfail' = nfail
          \/ \* OSError when the file is opened
             /\ nfail < MaxFailures
             /\ nfail' = nfail + 1
             /\ store' = store
             /\ failed' = TRUE
             /\ proc' = [proc EXCEPT !.alive = FALSE, !.exitcode = 1]
    /\ UNCHANGED <<pc, next_tick, tmpdate, filename, time, p, nsamples,
                   created, nrun, nflush, nrot, rows0>>
    /\ UNCHANGED fnVars /\ UNCHANGED histVars

\* the child process running create_pressure_dataset (lines 20-32)
WorkerCreate ==
    /\ proc.alive
    /\ proc.target = "create_pressure_dataset"
    /\ \E d \in StoreDelays : now' = now + d
    /\ \/ /\ store' = create_pressure_dataset(store, proc.args[1])
          /\ proc' = [proc EXCEPT !.alive = FALSE, !.exitcode = 0]
          /\ UNCHANGED <<nfail, failed>>
       \/ /\ nfail < MaxFailures
          /\ nfail' = nfail + 1
          /\ store' = store
          /\ failed' = TRUE
          /\ proc' = [proc EXCEPT !.alive = FALSE, !.exitcode = 1]
    /\ UNCHANGED <<pc, next_tick, tmpdate, filename, time, p, nsamples,
                   created, nrun, nflush, nrot, rows0>>
    /\ UNCHANGED fnVars /\ UNCHANGED histVars

\* a plausible slip: the append worker is not joined (line 114 missing)
RotJoinAppend_nojoin ==
    /\ pc = "rot_append_join"
    /\ p' = <<>> /\ time' = <<>>
    /\ filename' = FileName(tmpdate)
    /\ proc' = [target |-> "create_pressure_dataset", alive |-> TRUE,
                exitcode |-> 0, args |-> <<FileName(tmpdate)>>]
    /\ created' = Append(created, FileName(tmpdate))
    /\ nrun' = 0 /\ nflush' = 0
    /\ pc' = "rot_create_join"
    /\ UNCHANGED <<now, next_tick, tmpdate, store, nsamples, nfail, nrot,
                   failed, rows0>>
    /\ UNCHANGED fnVars /\ UNCHANGED histVars

\* a plausible slip: the current name is not moved on to the new Segment
RotJoinAppend_keepname ==
    /\ pc = "rot_append_join"
    /\ ~proc.alive
    /\ p' = <<>> /\ time' = <<>>
    /\ filename' = filename
    /\ proc' = [target |-> "create_pressure_dataset", alive |-> TRUE,
                exitcode |-> 0, args |-> <<FileName(tmpdate)>>]
    /\ created' = Append(created, FileName(tmpdate))
    /\ nrun' = 0 /\ nflush' = 0
    /\ pc' = "rot_create_join"
    /\ UNCHANGED <<now, next_tick, tmpdate, store, nsamples, nfail, nrot,
                   failed, rows0>>
    /\ UNCHANGED fnVars /\ UNCHANGED histVars

\* a plausible slip: the buffers are not cleared after the rotation's flush
RotJoinAppend_noclear ==
    /\ pc = "rot_append_join"
    /\ ~proc.alive
    /\ p' = p /\ time' = time
    /\ filename' = FileName(tmpdate)
    /\ proc' = [target |-> "create_pressure_dataset", alive |-> TRUE,
                exitcode |-> 0, args |-> <<FileName(tmpdate)>>]
    /\ created' = Append(created, FileName(tmpdate))
    /\ nrun' = 0 /\ nflush' = 0
    /\ pc' = "rot_create_join"
    /\ UNCHANGED <<now, next_tick, tmpdate, store, nsamples, nfail, nrot,
                   failed, rows0>>
    /\ UNCHANGED fnVars /\ UNCHANGED histVars

\* lines 114-120: join of the append, clear, new name, create worker started
RotJoinAppend ==
    /\ pc = "rot_append_join"
    /\ ~proc.alive
    /\ p' = <<>> /\ time' = <<>>
    /\ filename' = FileName(tmpdate)
    /\ proc' = [target |-> "create_pressure_dataset", alive |-> TRUE,
                exitcode |-> 0, args |-> <<FileName(tmpdate)>>]
    /\ created' = Append(created, FileName(tmpdate))
    /\ nrun' = 0 /\ nflush' = 0
    /\ pc' = "rot_create_join"
    /\ UNCHANGED <<now, next_tick, tmpdate, store, nsamples, nfail, nrot,
                   failed, rows0>>
    /\ UNCHANGED fnVars /\ UNCHANGED histVars

\* line 121
RotJoinCreate ==
    /\ pc = "rot_create_join"
    /\ ~proc.alive
    /\ pc' = "sleep"
    /\ UNCHANGED <<now, next_tick, tmpdate, filename, time, p, store, proc,
                   nsamples, nfail, created, nrun, nflush, nrot, failed, rows0>>
    /\ UNCHANGED fnVars /\ UNCHANGED histVars

\* a plausible slip: the buffers are not cleared after the flush
CapJoin_noclear ==
    /\ pc = "cap_join"
    /\ ~proc.alive
    /\ pc' = "sleep"
    /\ UNCHANGED <<now, next_tick, tmpdate, filename, time, p, store, proc,
                   nsamples, nfail, created, nrun, nflush, nrot, failed, rows0>>
    /\ UNCHANGED fnVars /\ UNCHANGED histVars

\* lines 126-128
CapJoin ==
    /\ pc = "cap_join"
    /\ ~proc.alive
    /\ p' = <<>> /\ time' = <<>>
    /\ pc' = "sleep"
    /\ UNCHANGED <<now, next_tick, tmpdate, filename, store, proc, nsamples,
                   nfail, created, nrun, nflush, nrot, failed, rows0>>
    /\ UNCHANGED fnVars /\ UNCHANGED histVars

Next ==
    \/ InitCreate \/ Sync \/ Sleep \/ Read \/ ReadFail
    \/ CheckRotate \/ CheckCapacity \/ CheckNone
    \/ WorkerAppend \/ WorkerCreate
    \/ RotJoinAppend \/ RotJoinCreate \/ CapJoin

Spec == Init /\ [][Next]_vars

\* the same program under the scheduling the code relies on: the main process
\* and a started worker keep running (start(), join() at lines 112-114, 119-121,
\* 124-126), so a step that stays possible is taken
SpecLive == Init /\ [][Next]_vars /\ WF_vars(Next)

\* ------------------------------------------- round trip through the store
LoopIdle ==
    /\ now = 0 /\ next_tick = 0
    /\ tmpdate = Label(0) /\ filename = FileName(Label(0))
    /\ time = <<>> /\ p = <<>> /\ proc = NoProc
    /\ nsamples = 0 /\ nfail = 0 /\ created = <<>>
    /\ nrun = 0 /\ nflush = 0 /\ nrot = 0 /\ failed = FALSE
    /\ rows0 = <<>>
    /\ HistIdle

loopRest == <<now, next_tick, tmpdate, filename, time, p, proc, nsamples,
              nfail, created, nrun, nflush, nrot, failed, rows0,
              tick0, slept, acquired, srcfailed>>

InitRT ==
    /\ pc = "rt_create" /\ store = <<>>
    /\ LoopIdle /\ FnIdle

\* create_pressure_dataset(filename) on a fresh name
RTCreate ==
    /\ pc = "rt_create"
    /\ store' = create_pressure_dataset(store, filename)
    /\ pc' = "rt_append"
    /\ UNCHANGED loopRest /\ UNCHANGED fnVars

\* add_pressure_array(filename, ts, ps) with a known chunk of pairs
RTAppend ==
    /\ pc = "rt_append"
    /\ \E n \in 0..(MaxLen - Len(in_ts)) :
          \E ts \in [1..n -> RTStamps], ps \in [1..n -> RTCodes] :
             /\ store' = add_pressure_array(store, filename, ts, ps)
             /\ in_ts' = in_ts \o ts
             /\ in_p' = in_p \o ps
    /\ UNCHANGED pc
    /\ UNCHANGED loopRest /\ UNCHANGED <<out_ts, out_p, raw, conv, q, view>>

\* load_pressure_data(filename)
RTLoad ==
    /\ pc = "rt_append"
    /\ out_ts' = load_pressure_data(store, filename)[1]
    /\ out_p' = load_pressure_data(store, filename)[2]
    /\ pc' = "rt_done"
    /\ UNCHANGED store
    /\ UNCHANGED loopRest /\ UNCHANGED <<in_ts, in_p, raw, conv, q, view>>

NextRT == RTCreate \/ RTAppend \/ RTLoad

SpecRT == InitRT /\ [][NextRT]_vars

\* ------------------------------------------------------ unit conversion
InitConv ==
    /\ pc = "cv_in" /\ store = <<>>
    /\ LoopIdle
    /\ in_ts = <<>> /\ in_p = <<>> /\ out_ts = <<>> /\ out_p = <<>>
    /\ raw \in 0..(WrapRange - 1) /\ conv = 0 /\ q = 1 /\ view = NoView

\* lines 45-46 on one code
ConvertStep ==
    /\ pc = "cv_in"
    /\ conv' = Convert(raw)
    /\ pc' = "cv_done"
    /\ UNCHANGED store /\ UNCHANGED loopRest
    /\ UNCHANGED <<in_ts, in_p, out_ts, out_p, raw, q, view>>

NextConv == ConvertStep

SpecConv == InitConv /\ [][NextConv]_vars

\* ------------------------------------------------------------ decimation
CeilDiv(a, b) == (a + b - 1) \div b

\* scipy.signal.decimate(x, q, zero_phase=True): an order-8 low-pass run
\* forwards and backwards, which needs more than PadLen samples
decimate_raises(x, k) == Len(x) <= PadLen

\* the filtered series taken at every k-th index
decimate(x, k) ==
    [i \in 1..CeilDiv(Len(x), k) |-> [lowpass |-> k, at |-> (i - 1) * k]]

\* np.arange(0, n, k)
arange(n, k) == [i \in 1..CeilDiv(n, k) |-> (i - 1) * k]

Take(s, n) == [i \in 1..n |-> s[i]]

\* a plausible slip: the early return hands the pair back in the wrong order
decimate_signal_swapped(ts, ps, k) ==
    IF k <= 1 THEN <<ps, ts>>
    ELSE LET dec_pressures == decimate(ps, k)
             dec_indices == arange(Len(ts), k)
             dec_timestamps == [i \in 1..Len(dec_indices) |-> ts[dec_indices[i] + 1]]
         IN  IF Len(dec_timestamps) > Len(dec_pressures)
             THEN <<Take(dec_timestamps, Len(dec_pressures)), dec_pressures>>
             ELSE IF Len(dec_timestamps) < Len(dec_pressures)
             THEN <<dec_timestamps, Take(dec_pressures, Len(dec_timestamps))>>
             ELSE <<dec_timestamps, dec_pressures>>

\* decimate_signal (lines 11-40), when decimate() does not raise
decimate_signal(ts, ps, k) ==
    IF k <= 1 THEN <<ts, ps>>
    ELSE LET dec_pressures == decimate(ps, k)
             dec_indices == arange(Len(ts), k)
             dec_timestamps == [i \in 1..Len(dec_indices) |-> ts[dec_indices[i] + 1]]
         IN  IF Len(dec_timestamps) > Len(dec_pressures)
             THEN <<Take(dec_timestamps, Len(dec_pressures)), dec_pressures>>
             ELSE IF Len(dec_timestamps) < Len(dec_pressures)
             THEN <<dec_timestamps, Take(dec_pressures, Len(dec_timestamps))>>
             ELSE <<dec_timestamps, dec_pressures>>

InitDec ==
    /\ pc = "dec_in" /\ store = <<>>
    /\ LoopIdle
    /\ \E n \in 0..MaxSeries, t0 \in DecStarts :
          /\ in_ts = [i \in 1..n |-> t0 + i * interval_ms]
          /\ in_p = [i \in 1..n |-> Convert(7)]
    /\ q \in 1..MaxQ
    /\ out_ts = <<>> /\ out_p = <<>> /\ raw = 0 /\ conv = 0
    /\ view = NoView

\* line 129: the call returns
DecimateReturns ==
    /\ pc = "dec_in"
    /\ ~(q > 1 /\ decimate_raises(in_p, q))
    /\ out_ts' = decimate_signal(in_ts, in_p, q)[1]
    /\ out_p' = decimate_signal(in_ts, in_p, q)[2]
    /\ pc' = "dec_done"
    /\ UNCHANGED store /\ UNCHANGED loopRest
    /\ UNCHANGED <<in_ts, in_p, raw, conv, q, view>>

\* line 28: decimate() raises ValueError, nothing is returned
DecimateRaises ==
    /\ pc = "dec_in"
    /\ q > 1 /\ decimate_raises(in_p, q)
    /\ pc' = "dec_raised"
    /\ UNCHANGED store /\ UNCHANGED loopRest
    /\ UNCHANGED fnVars

NextDec == DecimateReturns \/ DecimateRaises

SpecDec == InitDec /\ [][NextDec]_vars

\* --------------------------------------------- tick targets in binary64
\* round to nearest representable value (no tie occurs on whole fifths)
RoundToUlp(v) == ((v + (UlpFifths \div 2)) \div UlpFifths) * UlpFifths

\* ms / 1000.0 for a whole number of intervals: a correctly rounded division
FloatOfMs(ms) == RoundToUlp((ms \div interval_ms) * IntervalFifths)

\* next_tick += interval_s: the sum is rounded to the nearest double
NextTickFloat(x) == RoundToUlp(x + IntervalFifths)

InitTick ==
    /\ pc = "tk_sync" /\ store = <<>>
    /\ now \in 0..MaxStartMs
    /\ next_tick = 0
    /\ tmpdate = Label(0) /\ filename = FileName(Label(0))
    /\ time = <<>> /\ p = <<>> /\ proc = NoProc
    /\ nsamples = 0 /\ nfail = 0 /\ created = <<>>
    /\ nrun = 0 /\ nflush = 0 /\ nrot = 0 /\ failed = FALSE
    /\ rows0 = <<>>
    /\ HistIdle /\ FnIdle

tickRest == <<store, tmpdate, filename, time, p, proc, nfail, created,
              nrun, nflush, nrot, failed, rows0, slept, acquired, srcfailed>>

\* lines 95-96: tick0 is the index of the first tick on the interval grid
TickSync ==
    /\ pc = "tk_sync"
    /\ tick0' = (now \div interval_ms) + 1
    /\ next_tick' = FloatOfMs(((now \div interval_ms) + 1) * interval_ms)
    /\ pc' = "tk_loop"
    /\ UNCHANGED <<now, nsamples>>
    /\ UNCHANGED tickRest /\ UNCHANGED fnVars

\* line 107, once per iteration whatever the iteration took
TickAdvance ==
    /\ pc = "tk_loop"
    /\ nsamples < MaxTicks
    /\ next_tick' = NextTickFloat(next_tick)
    /\ nsamples' = nsamples + 1
    /\ UNCHANGED <<pc, now, tick0>>
    /\ UNCHANGED tickRest /\ UNCHANGED fnVars

NextTick == TickSync \/ TickAdvance

SpecTick == InitTick /\ [][NextTick]_vars

\* ------------------------------------------------------------ the viewer
ViewExit(code, msg) == [view EXCEPT !.exitcode = code, !.diag = msg]

\* a plausible slip: only negative factors are rejected
QInvalid_neg(k) == k < 0

\* line 110: q < 1
QInvalid(k) == k < 1

\* the files the viewer may be pointed at: none, one without the dataset,
\* one with the dataset under another name, one with n rows
ViewStores ==
    {<<>>, (FileName(Label(0)) :> <<>>),
     (FileName(Label(0)) :> ("other" :> <<>>))}
    \cup {(FileName(Label(0)) :>
              (DefaultDataset :> [i \in 1..n |-> <<i * interval_ms, Convert(7)>>]))
          : n \in 0..MaxSeries}

InitView ==
    /\ pc = "view_args"
    /\ store \in ViewStores
    /\ LoopIdle
    /\ in_ts = <<>> /\ in_p = <<>> /\ out_ts = <<>> /\ out_p = <<>>
    /\ raw = 0 /\ conv = 0
    /\ q \in (-1)..MaxQ
    /\ view = [NoView EXCEPT !.store0 = store]

\* lines 103-112: the factor is validated before anything is read
ViewArgs ==
    /\ pc = "view_args"
    /\ IF QInvalid(q)
       THEN /\ view' = ViewExit(1, "q_invalid")
            /\ pc' = "view_exit"
       ELSE /\ view' = view
            /\ pc' = "view_load"
    /\ UNCHANGED store /\ UNCHANGED loopRest
    /\ UNCHANGED <<in_ts, in_p, out_ts, out_p, raw, conv, q>>

\* lines 115-126: load_pressure_data and the three handlers
ViewLoad ==
    /\ pc = "view_load"
    /\ \/ \* FileNotFoundError
          /\ filename \notin DOMAIN store
          /\ view' = ViewExit(1, "file_not_found")
          /\ pc' = "view_exit"
          /\ UNCHANGED <<in_ts, in_p>>
       \/ \* any other exception: the file cannot be read
          /\ filename \in DOMAIN store
          /\ view' = [ViewExit(1, "read_error") EXCEPT !.unreadable = TRUE]
          /\ pc' = "view_exit"
          /\ UNCHANGED <<in_ts, in_p>>
       \/ \* KeyError
          /\ filename \in DOMAIN store
          /\ DefaultDataset \notin DOMAIN store[filename]
          /\ view' = ViewExit(1, "dataset_not_found")
          /\ pc' = "view_exit"
          /\ UNCHANGED <<in_ts, in_p>>
       \/ /\ filename \in DOMAIN store
          /\ DefaultDataset \in DOMAIN store[filename]
          /\ in_ts' = load_pressure_data(store, filename)[1]
          /\ in_p' = load_pressure_data(store, filename)[2]
          /\ view' = view
          /\ pc' = "view_decimate"
    /\ UNCHANGED store /\ UNCHANGED loopRest
    /\ UNCHANGED <<out_ts, out_p, raw, conv, q>>

\* lines 128-130: an exception of decimate() is not caught
ViewDecimate ==
    /\ pc = "view_decimate"
    /\ IF q > 1 /\ decimate_raises(in_p, q)
       THEN /\ view' = [ViewExit(1, "traceback") EXCEPT !.decimated = TRUE]
            /\ pc' = "view_exit"
            /\ UNCHANGED <<out_ts, out_p>>
       ELSE /\ out_ts' = decimate_signal(in_ts, in_p, q)[1]
            /\ out_p' = decimate_signal(in_ts, in_p, q)[2]
            /\ view' = [view EXCEPT !.decimated = TRUE]
            /\ pc' = "view_report"
    /\ UNCHANGED store /\ UNCHANGED loopRest
    /\ UNCHANGED <<in_ts, in_p, raw, conv, q>>

\* lines 133-145: timestamps[0] of an empty series raises IndexError
ViewReport ==
    /\ pc = "view_report"
    /\ IF Len(out_ts) = 0
       THEN view' = ViewExit(1, "traceback")
       ELSE view' = ViewExit(0, "none")
    /\ pc' = "view_exit"
    /\ UNCHANGED store /\ UNCHANGED loopRest
    /\ UNCHANGED <<in_ts, in_p, out_ts, out_p, raw, conv, q>>

NextView == ViewArgs \/ ViewLoad \/ ViewDecimate \/ ViewReport

SpecView == InitView /\ [][NextView]_vars

TypeOK ==
    /\ Len(time) = Len(p)
    /\ nsamples <= MaxSamples

IsPrefix(a, b) ==
    /\ Len(a) <= Len(b)
    /\ \A i \in 1..Len(a) : a[i] = b[i]

\* rows of the dataset of file f, <<>> when the file or the dataset is missing
Rows(st, f) ==
    IF f \in DOMAIN st /\ DefaultDataset \in DOMAIN st[f]
    THEN st[f][DefaultDataset] ELSE <<>>

\* the label a file name was built from
LabelOf(f) == f[2]

\* the rows of the Segments named in a sequence, one Segment after the other
RECURSIVE ConcatRows(_, _)
ConcatRows(st, names) ==
    IF names = <<>> THEN <<>>
    ELSE Rows(st, Head(names)) \o ConcatRows(st, Tail(names))

\* ------------------------------------------------------------ claims
\* C1 (as stated): after every appended sample the minute label of the next
\* tick equals the label of the open Segment, a rotation having happened
\* whenever the two differed.
C1_RotationOnEveryMinuteLabel ==
    (pc = "sleep" /\ nsamples > 0) => Label(next_tick) = tmpdate

\* C1 (amended): after every appended sample the labels of the next tick and
\* of the open Segment agree on their date part (label[:-4]), a rotation
\* having happened exactly when the date parts differed; the open file is
\* named by the current label, and one Segment is created per date the loop
\* passes through, present in the store when no store operation failed.
C1_RotationOnDateChange ==
    (pc = "sleep" /\ nsamples > 0) =>
        /\ DatePart(Label(next_tick)) = DatePart(tmpdate)
        /\ filename = FileName(tmpdate)
        /\ created[Len(created)] = filename
        /\ \A i \in 1..(Len(created) - 1) :
              DatePart(LabelOf(created[i + 1])) = DatePart(LabelOf(created[i])) + 1
        /\ ~failed => \A i \in 1..Len(created) : created[i] \in DOMAIN store

\* C1 witness: a rotation has happened and, later, the minute label of the
\* next tick has moved on within the same date without a rotation.
C1_Witness ==
    /\ pc = "sleep" /\ nsamples > 0 /\ ~failed
    /\ Len(created) = 2
    /\ Label(next_tick) # tmpdate

\* C2: every row of a Segment created in this run carries a stamp whose
\* label has the date of that Segment: no sample stamped in B sits in A.
C2_SamplesOnlyInOwnSegment ==
    \A i \in 1..Len(created) :
        \A k \in 1..Len(Rows(store, created[i])) :
            (i > 1 \/ pc # "start") =>
                DatePart(Label(Rows(store, created[i])[k][1]))
                    = DatePart(LabelOf(created[i]))

\* C3: the buffer never holds more than Capacity samples, and it holds
\* fewer than Capacity whenever the next sample is about to be appended.
C3_BufferBounded ==
    /\ Len(time) <= Capacity
    /\ Len(p) <= Capacity
    /\ pc \in {"sleep", "read"} => Len(time) < Capacity

\* C3 witness: the buffer holds exactly Capacity samples and its flush runs.
C3_Witness ==
    /\ pc = "cap_join" /\ Len(time) = Capacity /\ proc.alive

\* C4: after N samples without a crossing, starting from an empty buffer,
\* floor(N/Capacity) flushes have happened and the buffer holds
\* N mod Capacity samples (it is empty right after each flush).
C4_FlushCount ==
    pc \in {"sleep", "read"} =>
        /\ nflush = nrun \div Capacity
        /\ Len(time) = nrun % Capacity

\* C4 witness: 2*Capacity samples without a crossing: 2 flushes, buffer empty.
C4_Witness ==
    /\ pc = "sleep" /\ nrun = 2 * Capacity /\ nflush = 2 /\ Len(time) = 0
    /\ nrot = 0

\* C5: past the first create, every step keeps the rows of every stored
\* dataset as a prefix of its rows afterwards, and a successful append grows
\* the target by exactly the flushed samples, in buffer order, at the tail.
C5_AppendAtTail ==
    [][ pc # "start" =>
          /\ \A f \in DOMAIN store :
                /\ f \in DOMAIN store'
                /\ \A d \in DOMAIN store[f] :
                      /\ d \in DOMAIN store'[f]
                      /\ IsPrefix(store[f][d], store'[f][d])
          /\ ( /\ proc.alive /\ proc.target = "add_pressure_array"
               /\ ~proc'.alive /\ proc'.exitcode = 0 ) =>
                LET f  == proc.args[1]
                    ts == proc.args[2]
                    ps == proc.args[3]
                IN  /\ ts = time /\ ps = p /\ f = filename
                    /\ Len(Rows(store', f)) = Len(Rows(store, f)) + Len(ts)
                    /\ \A i \in 1..Len(ts) :
                          /\ Rows(store', f)[Len(Rows(store, f)) + i][1] = ts[i]
                          /\ Rows(store', f)[Len(Rows(store, f)) + i][2]
                                = Convert(ps[i])
                    /\ \A i \in 1..(Len(ts) - 1) : ts[i] <= ts[i + 1]
      ]_vars

\* C5 witness: a second flush has been appended behind the rows of a first.
C5_Witness ==
    /\ pc = "cap_join" /\ ~proc.alive /\ proc.exitcode = 0
    /\ Len(Rows(store, filename)) = 2 * Capacity

\* C6: once a store operation has failed the loop does not go on: it is not
\* found sleeping for, reading or checking a later tick.
C6_StoreFailureIsFatal ==
    failed => pc \in {"crashed", "cap_join", "rot_append_join", "rot_create_join"}

\* C7: the rows an earlier run committed to the Segment of the starting
\* minute are still the head of that Segment after the start.
C7_CreateKeepsExisting ==
    (rows0 # <<>> /\ Len(created) >= 1) =>
        IsPrefix(rows0, Rows(store, created[1]))

C9_ConversionSign ==
    pc = "cv_done" =>
        /\ conv = (IF raw >= 8192 THEN raw - 65536 ELSE raw) * 250
        /\ raw < 8192 => conv >= 0
        /\ raw >= 8192 => conv < 0

\* C9 witness: the first wrapped code has been converted to a negative value.
C9_Witness ==
    pc = "cv_done" /\ raw = 8192 /\ conv = -14336000

\* C10: for q > 1 the call returns two sequences of one length n, with n
\* within one of floor(L/q) and the stamps taken at indices 0, q, 2q, ...
C10_DecimateLengths ==
    (pc \in {"dec_done", "dec_raised"} /\ q > 1) =>
        /\ pc = "dec_done"
        /\ Len(out_ts) = Len(out_p)
        /\ Len(out_ts) - (Len(in_ts) \div q) \in {-1, 0, 1}
        /\ \A i \in 1..Len(out_ts) : out_ts[i] = in_ts[(i - 1) * q + 1]

\* C11: for q = 1 the call returns, and what it returns is the input pair
\* itself, for every series, the empty one included.
C11_IdentityForQ1 ==
    (q = 1 /\ pc \in {"dec_done", "dec_raised"}) =>
        /\ pc = "dec_done"
        /\ out_ts = in_ts
        /\ out_p = in_p

\* C11 witness: a series too short to be filtered came back unchanged.
C11_Witness ==
    /\ pc = "dec_done" /\ q = 1
    /\ Len(in_ts) = 3 /\ out_ts = in_ts /\ out_p = in_p

\* C12: the viewer never changes the store; and when q < 1, the file is
\* missing, the dataset is not in the file or the file cannot be read, it
\* ends with exit code 1 and the message of that case, an invalid q being
\* rejected before anything is read or decimated.
C12_ViewerErrors ==
    /\ store = view.store0
    /\ pc = "view_exit" =>
          /\ q < 1 =>
                /\ view.exitcode = 1 /\ view.diag = "q_invalid"
                /\ ~view.decimated /\ in_ts = <<>>
          /\ (q >= 1 /\ filename \notin DOMAIN store) =>
                (view.exitcode = 1 /\ view.diag = "file_not_found")
          /\ (q >= 1 /\ view.unreadable) =>
                (view.exitcode = 1 /\ view.diag = "read_error")
          /\ (q >= 1 /\ filename \in DOMAIN store /\ ~view.unreadable
                /\ DefaultDataset \notin DOMAIN store[filename]) =>
                (view.exitcode = 1 /\ view.diag = "dataset_not_found")

\* C12 witness: the viewer has ended on a file that lacks the dataset.
C12_Witness ==
    /\ pc = "view_exit" /\ view.diag = "dataset_not_found"
    /\ view.exitcode = 1 /\ store = view.store0 /\ filename \in DOMAIN store

\* C13: while a worker is alive the loop does nothing: its position, the
\* buffers, the current name and label, the tick target and the sample count
\* stay as they are; a worker is started only when none is alive; and the
\* store is changed only by a live worker or by the first, direct, create.
C13_OneWriter ==
    [][ /\ proc.alive =>
             /\ pc' = pc /\ time' = time /\ p' = p
             /\ filename' = filename /\ tmpdate' = tmpdate
             /\ next_tick' = next_tick /\ nsamples' = nsamples
             /\ ~proc'.alive
        /\ (proc'.alive /\ proc' # proc) => ~proc.alive
        /\ store' # store => (proc.alive \/ pc = "start")
      ]_vars

\* C13 witness: the create worker of a rotation is running, after the
\* append worker of the same rotation has written and been joined.
C13_Witness ==
    /\ pc = "rot_create_join" /\ proc.alive
    /\ proc.target = "create_pressure_dataset"
    /\ Len(Rows(store, created[1])) > 0

\* C14: no step changes a Segment that has a successor (its file is neither
\* written, truncated nor created anew); an append worker is started on the
\* current name, which is the last Segment created; and the current name
\* changes only in the first create and in the rotation step, to the name
\* of the Segment that step creates.
C14_PredecessorClosed ==
    [][ /\ \A i \in 1..(Len(created) - 1) :
             /\ created[i] \in DOMAIN store <=> created[i] \in DOMAIN store'
             /\ created[i] \in DOMAIN store =>
                    store'[created[i]] = store[created[i]]
        /\ (proc'.alive /\ proc' # proc /\ proc'.target = "add_pressure_array") =>
             /\ proc'.args[1] = filename
             /\ filename = created[Len(created)]
        /\ filename' # filename =>
             /\ pc \in {"start", "rot_append_join"}
             /\ created' = Append(created, filename')
      ]_vars

\* C14 witness: after a rotation both the predecessor and the successor
\* hold rows: the rotation's flush and a later flush.
C14_Witness ==
    /\ Len(created) = 2 /\ ~failed
    /\ Len(Rows(store, created[1])) > 0
    /\ Len(Rows(store, created[2])) > 0

C16_TicksOnGrid ==
    pc = "tk_loop" =>
        LET grid == ((now \div 50) + 1 + nsamples) * 1048576
        IN  /\ grid - next_tick <= 2
            /\ next_tick - grid <= 2

\* C17: when the crossing test holds while the buffer holds Capacity samples
\* the step taken is the rotation alone: one append worker, on the old name
\* with the whole buffer, and no capacity flush; and right after a rotation
\* without failure the buffer is empty, the new Segment has no rows and
\* every sample acquired so far is stored exactly once.
C17_RotationOnly ==
    /\ [][ ( /\ pc = "check"
             /\ DatePart(Label(next_tick + interval_ms)) # DatePart(tmpdate)
             /\ Len(time) = Capacity ) =>
               /\ pc' = "rot_append_join"
               /\ nrot' = nrot + 1 /\ nflush' = nflush
               /\ proc'.target = "add_pressure_array"
               /\ proc'.args = <<filename, time, p>>
               /\ time' = time /\ filename' = filename
          ]_vars
    /\ []( (pc = "sleep" /\ nrot > 0 /\ nrun = 0 /\ ~failed) =>
               /\ time = <<>> /\ p = <<>>
               /\ Rows(store, filename) = <<>>
               /\ Len(ConcatRows(store, created)) = nsamples )

\* C17 witness: the first rotation came with the buffer exactly full: the
\* old Segment holds these Capacity samples, the new one is empty.
C17_Witness ==
    /\ pc = "sleep" /\ nrot = 1 /\ nrun = 0 /\ ~failed
    /\ nsamples = Capacity
    /\ Len(Rows(store, created[1])) = Capacity
    /\ Rows(store, created[2]) = <<>> /\ time = <<>>

\* C18: the step in which the Sample Source fails leaves the store, the
\* buffers and the worker as they are; from then on the loop is halted with
\* no worker alive, and nothing is acquired, created or appended any more;
\* the samples still in the buffer are in no Segment.
C18_SourceFailureHalts ==
    /\ []( srcfailed =>
              ( /\ pc = "crashed" /\ ~proc.alive
                /\ (~failed =>
                      Len(ConcatRows(store, created)) + Len(time) = nsamples) ))
    /\ [][ ( (srcfailed' /\ ~srcfailed) =>
                 ( /\ store' = store /\ time' = time /\ p' = p
                   /\ proc' = proc /\ nsamples' = nsamples ) )
           /\
           ( srcfailed =>
                 ( /\ store' = store /\ nsamples' = nsamples
                   /\ proc' = proc /\ created' = created
                   /\ acquired' = acquired ) )
          ]_vars

\* C18 witness: the source failed while samples were buffered.
C18_Witness ==
    /\ srcfailed /\ pc = "crashed" /\ Len(time) > 0
    /\ Len(ConcatRows(store, created)) > 0

\* the row a sample is written as: its stamp and its converted code (45-47)
RowOf(a) == <<a.t, Convert(a.raw)>>

\* C19: at every iteration boundary of a run whose store operations all
\* succeeded, the rows of the Segments created in this run, in creation
\* order, followed by the buffered samples, are the acquired samples in
\* acquisition order, each one once (a Segment row carries the converted
\* code of its sample); no Segment was created twice.
C19_Conservation ==
    (pc = "sleep" /\ ~failed) =>
        /\ ConcatRows(store, created) \o ColumnStack(time, p)
              = [i \in 1..Len(acquired) |-> RowOf(acquired[i])]
        /\ Len(acquired) = nsamples
        /\ \A i, j \in 1..Len(created) : created[i] = created[j] => i = j

\* C19 witness: an iteration boundary after a flush and a rotation, with
\* rows in both Segments and a sample still buffered.
C19_Witness ==
    /\ pc = "sleep" /\ ~failed /\ Len(created) = 2
    /\ nflush > 0 /\ nrot > 0
    /\ Rows(store, created[1]) # <<>>
    /\ Rows(store, created[2]) # <<>>
    /\ time # <<>>

\* sample number i of the run is a row of a Segment created in this run
Appended(i) ==
    LET rows == ConcatRows(store, created)
    IN  IF i <= Len(rows) /\ i <= Len(acquired)
        THEN rows[i] = RowOf(acquired[i])
        ELSE FALSE

\* C20: while the source returns and the store operations complete, a sample
\* not yet appended has been followed by at most Capacity - 1 acquisitions,
\* and by fewer at an iteration boundary; and eventually every sample that
\* the run follows with Capacity - 1 further acquisitions is the Segment row
\* with its own index (rows stay once appended), unless the source or a store
\* operation failed.
C20_EventuallyAppended ==
    /\ []( ~failed =>
              \A i \in 1..nsamples :
                 ~Appended(i) =>
                    /\ nsamples - i <= Capacity - 1
                    /\ (pc = "sleep" => nsamples - i < Capacity - 1) )
    /\ <>( \/ failed \/ srcfailed
           \/ \A i \in 1..(MaxSamples - Capacity + 1) : Appended(i) )

\* C20 witness: the first sample waited for Capacity - 1 further acquisitions
\* in the buffer and was appended by the flush that followed.
C20_Witness ==
    /\ ~failed /\ ~srcfailed /\ nrot = 0 /\ nflush = 1
    /\ nsamples = Capacity /\ pc = "sleep"
    /\ Appended(1) /\ Appended(Capacity)
====
